---- MODULE Spec2Model ----
(***************************************************************************)
(* Model of the Gemini MCP gateway (src/server.mjs): the API key pool with *)
(* its rotation cursor, backend selection, and the CallTool handler with   *)
(* its rotate-and-retry loop.  The handler is an async function on a       *)
(* single-threaded event loop: everything between two awaits is one atomic *)
(* step, and the only await is the outbound generateContent call.          *)
(***************************************************************************)
EXTENDS Integers, Sequences, FiniteSets, TLC

\* ---- bounds of the model ----
MaxKeys == 3
MaxRequests == 2
MaxFailures == 3
MaxRotateCalls == 4

Requests == 1..MaxRequests

Max(a, b) == IF a >= b THEN a ELSE b

\* ---- configuration (src/server.mjs:31-53) ----
\* GEMINI_BACKEND, lower-cased; any value other than the three documented
\* ones takes the auto branch of getClient but constructs no Vertex client.
Backends == {"vertex", "apikey", "auto", "other"}

DEFAULT_MODEL == "gemini-3-pro-preview"

\* The registry of models routed to Vertex AI, and the models a request can name:
\* one listed, one not listed.
VERTEX_MODELS == {"gemini-3-pro-preview", "gemini-3-flash-preview", "gemini-2.5-pro",
                  "gemini-2.5-flash", "gemini-2.5-flash-lite", "gemini-2.0-flash-001"}
Models == {"gemini-3-pro-preview", "gemini-robotics-er-1.5-preview"}

\* A pool of n trimmed, non-empty keys; key i is named by its position i.
Pool(n) == [i \in 1..n |-> i]

\* ---- errors a backend call can throw ----
\* message is the error text as a sequence of words, status its HTTP status.
ErrResourceExhausted == [message |-> <<"RESOURCE_EXHAUSTED">>, status |-> 429]
ErrTooManyRequests == [message |-> <<"Too", "Many", "Requests">>, status |-> 429]
Errors == {ErrResourceExhausted, ErrTooManyRequests}
ErrQuotaText == [message |-> <<"Quota", "exceeded">>, status |-> 403]
ErrTimeout == [message |-> <<"The", "operation", "timed", "out">>, status |-> 0]
ErrNoMessage == [message |-> <<>>, status |-> 500]
AllErrors == Errors \cup {ErrQuotaText, ErrTimeout, ErrNoMessage}
NoError == [message |-> <<"null">>, status |-> 0]

\* String.prototype.toLowerCase on one word.
ToLowerCase(w) ==
  CASE w = "RESOURCE_EXHAUSTED" -> "resource_exhausted"
    [] w = "Quota" -> "quota"
    [] w = "Too" -> "too"
    [] w = "Many" -> "many"
    [] w = "Requests" -> "requests"
    [] w = "Error" -> "error"
    [] w = "The" -> "the"
    [] OTHER -> w

LowerAll(msg) == [i \in 1..Len(msg) |-> ToLowerCase(msg[i])]

\* String.prototype.includes on word sequences.
Includes(msg, sub) ==
  \E i \in 1..(Len(msg) - Len(sub) + 1) : SubSeq(msg, i, i + Len(sub) - 1) = sub

\* err.message || String(err)
MessageOf(err) == IF err.message # <<>> THEN err.message ELSE <<"Error">>

isResourceExhausted(err) ==
  LET msg == LowerAll(MessageOf(err))
  IN  \/ Includes(msg, <<"resource_exhausted">>)
      \/ Includes(msg, <<"resource", "has", "been", "exhausted">>)
      \/ Includes(msg, <<"quota">>)
      \/ Includes(msg, <<"429">>)

\* ---- raw results of a successful backend call ----
\* text is response.text ("undefined" when the response has none), grounded
\* tells whether candidates[0].groundingMetadata.searchEntryPoint.renderedContent
\* is there, and present is FALSE when the call resolved with no response
\* object at all (undefined or null).
RawFull == [present |-> TRUE, text |-> "answer", grounded |-> TRUE]
RawResults == {RawFull}
RawTextOnly == [present |-> TRUE, text |-> "answer", grounded |-> FALSE]
RawNoText == [present |-> TRUE, text |-> "undefined", grounded |-> FALSE]
RawEmptyText == [present |-> TRUE, text |-> "", grounded |-> TRUE]
RawMissing == [present |-> FALSE, text |-> "undefined", grounded |-> FALSE]
AllRawResults == {RawFull, RawTextOnly, RawNoText, RawEmptyText, RawMissing}

\* The TypeError of reading a member of undefined (response.text, src/server.mjs:241).
ErrReadOfUndefined ==
  [message |-> <<"Cannot", "read", "properties", "of", "undefined">>, status |-> 0]

\* ---- the arguments of a tool call (src/server.mjs:182-188) ----
\* request.params.arguments; a member that is not given is "undefined", and
\* present is FALSE when the request carries no arguments at all.  Texts are
\* sequences of pieces.
Args(prompt, model, context, googleSearch, thinkingLevel) ==
  [present |-> TRUE, prompt |-> prompt, model |-> model, context |-> context,
   googleSearch |-> googleSearch, thinkingLevel |-> thinkingLevel,
   reasoningEffort |-> "undefined"]

NoArguments ==
  [present |-> FALSE, prompt |-> "undefined", model |-> "undefined",
   context |-> "undefined", googleSearch |-> "undefined",
   thinkingLevel |-> "undefined", reasoningEffort |-> "undefined"]

\* The requests of the many-request model: a prompt alone, for the default
\* model and for a model the Vertex list does not have, or no arguments.
PlainArguments ==
  {NoArguments} \cup
  {Args("question", m, "undefined", "undefined", "undefined") :
     m \in {"undefined", "gemini-robotics-er-1.5-preview"}}

\* Every combination of the optional members.
AllArguments ==
  {NoArguments} \cup
  {Args("question", m, c, g, t) :
     m \in Models \cup {"undefined"}, c \in {"undefined", "", "notes"},
     g \in {"undefined", "true", "false"}, t \in {"undefined", "NONE", "LOW"}}

\* JavaScript truthiness of a text or boolean member.
Truthy(v) == v \notin {"undefined", "", "false"}

\* fullPrompt with the prompt put before the context.
fullPrompt_PromptFirst(a) ==
  IF Truthy(a.context)
    THEN <<a.prompt, "\n\n", "Context:", "\n", a.context>>
    ELSE <<a.prompt>>

\* let fullPrompt = prompt; if (context) fullPrompt = `Context:\n${context}\n\n${prompt}`
\* (src/server.mjs:192-195), as the sequence of its pieces.
fullPrompt(a) ==
  IF Truthy(a.context)
    THEN <<"Context:", "\n", a.context, "\n\n", a.prompt>>
    ELSE <<a.prompt>>

\* config with the thinking level sent to every model.
configOf_ThinkingForAll(a, model) ==
  LET thinkingLevel == IF a.thinkingLevel = "undefined" THEN "HIGH" ELSE a.thinkingLevel
      googleSearch == IF a.googleSearch = "undefined" THEN "true" ELSE a.googleSearch
  IN  [thinkingConfig |-> IF thinkingLevel # "NONE" THEN thinkingLevel ELSE "absent",
       tools |-> IF Truthy(googleSearch) THEN "googleSearch" ELSE "absent"]

\* const config = {} and its two optional members (src/server.mjs:197-208);
\* a member that is not set is "absent".
configOf(a, model) ==
  LET thinkingLevel == IF a.thinkingLevel = "undefined" THEN "HIGH" ELSE a.thinkingLevel
      googleSearch == IF a.googleSearch = "undefined" THEN "true" ELSE a.googleSearch
      isRobotics == model = "gemini-robotics-er-1.5-preview"
  IN  [thinkingConfig |-> IF thinkingLevel # "NONE" /\ ~isRobotics
                            THEN thinkingLevel ELSE "absent",
       tools |-> IF Truthy(googleSearch) THEN "googleSearch" ELSE "absent"]

\* The argument of an outbound call; reasoning belongs to the OpenAI server.
NoCall ==
  [api |-> "none", model |-> "", text |-> <<>>, thinkingConfig |-> "absent",
   tools |-> "absent", reasoning |-> "absent"]

\* client.models.generateContent({model, contents, config}) (src/server.mjs:210-215, 235-239)
GenerateContentCall(a, model) ==
  [NoCall EXCEPT !.api = "generateContent", !.model = model, !.text = fullPrompt(a),
     !.thinkingConfig = configOf(a, model).thinkingConfig,
     !.tools = configOf(a, model).tools]

VARIABLES
  BACKEND,          \* routing mode
  API_KEYS,         \* the key pool, fixed at startup
  vertexClient,     \* TRUE when the Vertex client was constructed
  currentKeyIndex,  \* the rotation cursor, shared by all requests
  pc,               \* per request: "idle", "waiting" (suspended on the await), "done", "threw"
  selectedModel,    \* per request
  attempt,          \* per request: the loop counter
  client,           \* per request: the client of the outstanding attempt
  lastError,        \* per request
  result,           \* per request: the returned envelope
  attemptLog,       \* history, per request: the attempts made, with their outcomes
  alone,            \* history, per request: no other request was in flight with it
  rotateLog,        \* history: every rotateApiKey() call, in order
  arguments,        \* per request: request.params.arguments
  sent              \* per request: the argument of its latest outbound call

vars == <<BACKEND, API_KEYS, vertexClient, currentKeyIndex, pc, selectedModel, attempt,
          client, lastError, result, attemptLog, alone, rotateLog, arguments, sent>>

config == <<BACKEND, API_KEYS, vertexClient>>

\* ---- API key pool (src/server.mjs:55-71) ----
\* getApiKey ignoring the cursor.
getApiKey_First(idx) ==
  IF Len(API_KEYS) = 0 THEN 0 ELSE API_KEYS[1]

\* The key at the cursor: 0 stands for null.
getApiKey(idx) ==
  IF Len(API_KEYS) = 0 THEN 0 ELSE API_KEYS[(idx % Len(API_KEYS)) + 1]

\* rotateApiKey stepping the cursor twice.
rotateApiKey_DoubleStep(idx) ==
  IF Len(API_KEYS) <= 1
    THEN [ret |-> FALSE, index |-> idx]
    ELSE [ret |-> TRUE, index |-> (idx + 2) % Len(API_KEYS)]

\* rotateApiKey that never wraps: the last position stays.
rotateApiKey_NoWrap(idx) ==
  IF Len(API_KEYS) <= 1
    THEN [ret |-> FALSE, index |-> idx]
    ELSE [ret |-> TRUE, index |-> IF idx + 1 < Len(API_KEYS) THEN idx + 1 ELSE idx]

\* rotateApiKey refusing only the empty pool.
rotateApiKey_SingleKeyRotates(idx) ==
  IF Len(API_KEYS) < 1
    THEN [ret |-> FALSE, index |-> idx]
    ELSE [ret |-> TRUE, index |-> (idx + 1) % Len(API_KEYS)]

\* rotateApiKey without the modulo.
rotateApiKey_NoModulo(idx) ==
  IF Len(API_KEYS) <= 1
    THEN [ret |-> FALSE, index |-> idx]
    ELSE [ret |-> TRUE, index |-> idx + 1]

\* rotateApiKey: the returned value and the cursor it leaves.
rotateApiKey(idx) ==
  IF Len(API_KEYS) <= 1
    THEN [ret |-> FALSE, index |-> idx]
    ELSE [ret |-> TRUE, index |-> (idx + 1) % Len(API_KEYS)]

NullClient == [kind |-> "null", key |-> 0]
VertexClientObj == [kind |-> "vertex", key |-> 0]

\* makeApiKeyClient without its null check.
makeApiKeyClient_NoNullCheck(apiKey) == [kind |-> "apikey", key |-> apiKey]

makeApiKeyClient(apiKey) ==
  IF apiKey = 0 THEN NullClient ELSE [kind |-> "apikey", key |-> apiKey]

\* ---- backend selection (src/server.mjs:84-105) ----
\* getClient in auto mode trying the key pool before the Vertex model list.
getClient_KeyFirst(model, idx) ==
  LET vc == IF vertexClient THEN VertexClientObj ELSE NullClient
      key == getApiKey(idx)
  IN  IF BACKEND = "vertex" THEN [client |-> vc, via |-> "vertex"]
      ELSE IF BACKEND = "apikey"
        THEN [client |-> makeApiKeyClient(key), via |-> "apikey"]
      ELSE IF key # 0
        THEN [client |-> makeApiKeyClient(key), via |-> "apikey"]
      ELSE IF vertexClient
        THEN [client |-> vc, via |-> "vertex"]
      ELSE [client |-> NullClient, via |-> "none"]

\* getClient without its branch for the vertex routing mode.
getClient_NoVertexMode(model, idx) ==
  LET vc == IF vertexClient THEN VertexClientObj ELSE NullClient
      key == getApiKey(idx)
  IN  IF BACKEND = "apikey"
        THEN [client |-> makeApiKeyClient(key), via |-> "apikey"]
      ELSE IF model \in VERTEX_MODELS /\ vertexClient
        THEN [client |-> vc, via |-> "vertex"]
      ELSE IF key # 0
        THEN [client |-> makeApiKeyClient(key), via |-> "apikey"]
      ELSE IF vertexClient
        THEN [client |-> vc, via |-> "vertex"]
      ELSE [client |-> NullClient, via |-> "none"]

getClient(model, idx) ==
  LET vc == IF vertexClient THEN VertexClientObj ELSE NullClient
      key == getApiKey(idx)
  IN  IF BACKEND = "vertex" THEN [client |-> vc, via |-> "vertex"]
      ELSE IF BACKEND = "apikey"
        THEN [client |-> makeApiKeyClient(key), via |-> "apikey"]
      ELSE IF model \in VERTEX_MODELS /\ vertexClient
        THEN [client |-> vc, via |-> "vertex"]
      ELSE IF key # 0
        THEN [client |-> makeApiKeyClient(key), via |-> "apikey"]
      ELSE IF vertexClient
        THEN [client |-> vc, via |-> "vertex"]
      ELSE [client |-> NullClient, via |-> "none"]

\* The loop bound off by one.
maxAttempts_OneMore == Len(API_KEYS) + 1

maxAttempts == Max(Len(API_KEYS), 1)

\* ---- envelopes (the text is kept as its parts; `parts` lists the values the
\* template of the text interpolates, in the order they appear in it) ----
NoResult ==
  [kind |-> "none", isError |-> FALSE, model |-> "", backend |-> "", keySlot |-> 0,
   keyTotal |-> 0, exhaustedHint |-> FALSE, exhaustedCount |-> 0, msg |-> <<>>,
   responseText |-> "", groundingInfo |-> FALSE, parts |-> <<>>]

\* The unknown-tool envelope without its error flag.
UnknownToolResult_NotFlagged(name) ==
  [NoResult EXCEPT !.kind = "unknownTool", !.msg = <<name>>, !.parts = <<"name">>]

\* `Unknown tool: ${name}`
UnknownToolResult(name) ==
  [NoResult EXCEPT !.kind = "unknownTool", !.isError = TRUE, !.msg = <<name>>,
     !.parts = <<"name">>]

\* `Gemini config error: ${hint}`
ConfigErrorResult(via) ==
  [NoResult EXCEPT !.kind = "configError", !.isError = TRUE,
     !.msg = IF via = "none" THEN <<"No", "backend", "configured">>
             ELSE <<"Backend", BACKEND, "not", "available">>,
     !.parts = IF via = "none" THEN <<>> ELSE <<"BACKEND">>]

\* The annotation with the zero-based cursor.
SuccessResult_ZeroBased(model, via, raw, idx) ==
  LET showKey == via = "apikey" /\ Len(API_KEYS) > 1
  IN  [NoResult EXCEPT !.kind = "success", !.model = model,
         !.backend = IF via = "vertex" THEN "Vertex AI" ELSE "AI Studio",
         !.keySlot = IF showKey THEN idx % Len(API_KEYS) ELSE 0,
         !.keyTotal = IF showKey THEN Len(API_KEYS) ELSE 0,
         !.responseText = IF raw.text = "undefined" THEN "" ELSE raw.text,
         !.groundingInfo = raw.grounded,
         !.parts = <<"selectedModel", "backend">>
                   \o (IF showKey THEN <<"keyInfo">> ELSE <<>>)
                   \o <<"responseText">>
                   \o (IF raw.grounded THEN <<"groundingInfo">> ELSE <<>>)]

\* The annotation with a key slot for every keyed call.
SuccessResult_KeyForAnyPool(model, via, raw, idx) ==
  LET showKey == via = "apikey"
  IN  [NoResult EXCEPT !.kind = "success", !.model = model,
         !.backend = IF via = "vertex" THEN "Vertex AI" ELSE "AI Studio",
         !.keySlot = IF showKey THEN (idx % Len(API_KEYS)) + 1 ELSE 0,
         !.keyTotal = IF showKey THEN Len(API_KEYS) ELSE 0,
         !.responseText = IF raw.text = "undefined" THEN "" ELSE raw.text,
         !.groundingInfo = raw.grounded,
         !.parts = <<"selectedModel", "backend">>
                   \o (IF showKey THEN <<"keyInfo">> ELSE <<>>)
                   \o <<"responseText">>
                   \o (IF raw.grounded THEN <<"groundingInfo">> ELSE <<>>)]

\* `[Gemini ${selectedModel} | ${backend}${keyInfo}]\n${responseText}${groundingInfo}`
SuccessResult(model, via, raw, idx) ==
  LET showKey == via = "apikey" /\ Len(API_KEYS) > 1
  IN  [NoResult EXCEPT !.kind = "success", !.model = model,
         !.backend = IF via = "vertex" THEN "Vertex AI" ELSE "AI Studio",
         !.keySlot = IF showKey THEN (idx % Len(API_KEYS)) + 1 ELSE 0,
         !.keyTotal = IF showKey THEN Len(API_KEYS) ELSE 0,
         !.responseText = IF raw.text = "undefined" THEN "" ELSE raw.text,
         !.groundingInfo = raw.grounded,
         !.parts = <<"selectedModel", "backend">>
                   \o (IF showKey THEN <<"keyInfo">> ELSE <<>>)
                   \o <<"responseText">>
                   \o (IF raw.grounded THEN <<"groundingInfo">> ELSE <<>>)]

\* The final error counting the attempts that are left instead of the pool.
FinalErrorResult_Remaining(model, err) ==
  [NoResult EXCEPT !.kind = "error", !.isError = TRUE, !.model = model,
     !.exhaustedHint = isResourceExhausted(err),
     !.exhaustedCount = 0,
     !.msg = MessageOf(err),
     !.parts = <<"selectedModel">>
               \o (IF isResourceExhausted(err) THEN <<"exhaustedHint">> ELSE <<>>)
               \o <<"msg">>]

\* `Gemini error (${selectedModel}):${exhaustedHint} ${msg}`
FinalErrorResult(model, err) ==
  [NoResult EXCEPT !.kind = "error", !.isError = TRUE, !.model = model,
     !.exhaustedHint = isResourceExhausted(err),
     !.exhaustedCount = IF isResourceExhausted(err) THEN Len(API_KEYS) ELSE 0,
     !.msg = MessageOf(err),
     !.parts = <<"selectedModel">>
               \o (IF isResourceExhausted(err) THEN <<"exhaustedHint">> ELSE <<>>)
               \o <<"msg">>]

\* ---- startup ----
InitRest ==
  /\ BACKEND \in Backends
  /\ API_KEYS \in {Pool(n) : n \in 0..MaxKeys}
  /\ vertexClient = (BACKEND \in {"vertex", "auto"})
  /\ pc = [r \in Requests |-> "idle"]
  /\ selectedModel = [r \in Requests |-> ""]
  /\ attempt = [r \in Requests |-> 0]
  /\ client = [r \in Requests |-> NullClient]
  /\ lastError = [r \in Requests |-> NoError]
  /\ result = [r \in Requests |-> NoResult]
  /\ attemptLog = [r \in Requests |-> <<>>]
  /\ alone = [r \in Requests |-> TRUE]
  /\ rotateLog = <<>>
  /\ arguments = [r \in Requests |-> NoArguments]
  /\ sent = [r \in Requests |-> NoCall]

Init == InitRest /\ currentKeyIndex = 0

\* The backend failures so far, over all requests.
RECURSIVE Count(_, _)
Count(log, outs) ==
  IF log = <<>> THEN 0
  ELSE (IF log[1].outcome \in outs THEN 1 ELSE 0) + Count(Tail(log), outs)

RECURSIVE SumOver(_, _)
SumOver(f, S) ==
  IF S = {} THEN 0
  ELSE LET x == CHOOSE y \in S : TRUE IN f[x] + SumOver(f, S \ {x})

Failures == SumOver([r \in Requests |-> Count(attemptLog[r], {"quota", "fatal"})], Requests)

\* The requests suspended on their backend call.
InFlight == {q \in Requests : pc[q] = "waiting"}

\* Retrying on any keyed failure.
wantsRotate_AnyError(via, err) == via = "apikey"

\* The first two conjuncts of the retry condition (src/server.mjs:262); the
\* third, rotateApiKey(), is only called when they hold.
wantsRotate(via, err) == via = "apikey" /\ isResourceExhausted(err)

\* A loop iteration that issues its call twice.
StartAttempt_TwoCalls(r, model, n, idx) ==
  LET sel == getClient(model, idx)
      entry == [via |-> sel.via, key |-> sel.client.key, outcome |-> "pending"]
  IN  /\ attempt' = [attempt EXCEPT ![r] = n]
      /\ IF sel.client = NullClient
           THEN /\ pc' = [pc EXCEPT ![r] = "done"]
                /\ result' = [result EXCEPT ![r] = ConfigErrorResult(sel.via)]
                /\ client' = [client EXCEPT ![r] = NullClient]
                /\ attemptLog' = attemptLog
           ELSE /\ pc' = [pc EXCEPT ![r] = "waiting"]
                /\ result' = result
                /\ client' = [client EXCEPT ![r] = sel.client]
                /\ attemptLog' = [attemptLog EXCEPT ![r] = Append(Append(@, entry), entry)]

\* One loop iteration up to its await or return (src/server.mjs:221-239), for
\* request r at loop counter n with the cursor at idx.
StartAttempt(r, model, n, idx) ==
  LET sel == getClient(model, idx)
  IN  /\ attempt' = [attempt EXCEPT ![r] = n]
      /\ IF sel.client = NullClient
           THEN /\ pc' = [pc EXCEPT ![r] = "done"]
                /\ result' = [result EXCEPT ![r] = ConfigErrorResult(sel.via)]
                /\ client' = [client EXCEPT ![r] = NullClient]
                /\ attemptLog' = attemptLog
           ELSE /\ pc' = [pc EXCEPT ![r] = "waiting"]
                /\ result' = result
                /\ client' = [client EXCEPT ![r] = sel.client]
                /\ attemptLog' = [attemptLog EXCEPT ![r] =
                     Append(@, [via |-> sel.via, key |-> sel.client.key,
                                outcome |-> "pending"])]

SetOutcome(log, o) == [log EXCEPT ![Len(log)].outcome = o]

\* A mutant of Accepts: one request at a time.
Accepts_OneAtATime(r) == pc[r] = "idle" /\ InFlight = {}

\* The handler is registered as an async function, and the server invokes it
\* for each request as it arrives (src/server.mjs:174): a request still to be
\* made is accepted whatever the others are doing.
Accepts(r) == pc[r] = "idle"

\* The handler from its entry to its first await or return (src/server.mjs:174-239).
\* The requests it can receive are those of argSets.
CallToolWith(r, argSets) ==
  /\ Accepts(r)
  /\ \E name \in {"gemini", "search"}, a \in argSets :
       IF name # "gemini"
         THEN /\ pc' = [pc EXCEPT ![r] = "done"]
              /\ result' = [result EXCEPT ![r] = UnknownToolResult(name)]
              /\ UNCHANGED <<selectedModel, attempt, client, attemptLog, arguments, sent>>
       ELSE IF ~a.present
         \* destructuring request.params.arguments === undefined throws
         THEN /\ pc' = [pc EXCEPT ![r] = "threw"]
              /\ UNCHANGED <<result, selectedModel, attempt, client, attemptLog,
                             arguments, sent>>
       ELSE LET m == IF Truthy(a.model) THEN a.model ELSE DEFAULT_MODEL
            IN  /\ arguments' = [arguments EXCEPT ![r] = a]
                /\ selectedModel' = [selectedModel EXCEPT ![r] = m]
                /\ StartAttempt(r, m, 0, currentKeyIndex)
                /\ sent' = IF pc'[r] = "waiting"
                             THEN [sent EXCEPT ![r] = GenerateContentCall(a, m)]
                             ELSE sent
  /\ alone' = [q \in Requests |->
       IF pc'[r] = "waiting" /\ InFlight # {}
         THEN (IF q = r \/ q \in InFlight THEN FALSE ELSE alone[q])
         ELSE alone[q]]
  /\ UNCHANGED <<config, currentKeyIndex, lastError, rotateLog>>

CallTool(r) == CallToolWith(r, PlainArguments)

\* The catch block and what follows it (src/server.mjs:258-278), for request r
\* having caught err: rotate and retry, or give up.
Caught(r, err) ==
       LET via == attemptLog[r][Len(attemptLog[r])].via
           exhausted == isResourceExhausted(err)
           tryRotate == wantsRotate(via, err)
           rot == rotateApiKey(currentKeyIndex)
           logged == SetOutcome(attemptLog[r], IF exhausted THEN "quota" ELSE "fatal")
       IN  /\ lastError' = [lastError EXCEPT ![r] = err]
           /\ rotateLog' = IF tryRotate
                THEN Append(rotateLog, [before |-> currentKeyIndex, after |-> rot.index,
                                        ret |-> rot.ret])
                ELSE rotateLog
           /\ currentKeyIndex' = IF tryRotate THEN rot.index ELSE currentKeyIndex
           /\ IF tryRotate /\ rot.ret /\ attempt[r] + 1 < maxAttempts
                THEN \* continue: the next iteration runs up to its await
                     LET sel == getClient(selectedModel[r], rot.index)
                     IN  /\ attempt' = [attempt EXCEPT ![r] = @ + 1]
                         /\ IF sel.client = NullClient
                              THEN /\ pc' = [pc EXCEPT ![r] = "done"]
                                   /\ result' = [result EXCEPT ![r] =
                                        ConfigErrorResult(sel.via)]
                                   /\ client' = [client EXCEPT ![r] = NullClient]
                                   /\ attemptLog' = [attemptLog EXCEPT ![r] = logged]
                                   /\ sent' = sent
                              ELSE /\ pc' = pc
                                   /\ result' = result
                                   /\ client' = [client EXCEPT ![r] = sel.client]
                                   /\ sent' = [sent EXCEPT ![r] =
                                        GenerateContentCall(arguments[r], selectedModel[r])]
                                   /\ attemptLog' = [attemptLog EXCEPT ![r] =
                                        Append(logged, [via |-> sel.via,
                                                        key |-> sel.client.key,
                                                        outcome |-> "pending"])]
                ELSE \* break, or the loop ran out: the final error
                     /\ attempt' = [attempt EXCEPT ![r] =
                          IF tryRotate /\ rot.ret THEN @ + 1 ELSE @]
                     /\ pc' = [pc EXCEPT ![r] = "done"]
                     /\ result' = [result EXCEPT ![r] =
                          FinalErrorResult(selectedModel[r], err)]
                     /\ client' = client
                     /\ attemptLog' = [attemptLog EXCEPT ![r] = logged]
                     /\ sent' = sent

\* The awaited call resolves (src/server.mjs:241-256); reading the text of a
\* response that is not there throws inside the try block.
SucceedWith(r, raws) ==
  /\ pc[r] = "waiting"
  /\ \E raw \in raws :
       IF raw.present
         THEN /\ result' = [result EXCEPT ![r] =
                   SuccessResult(selectedModel[r], attemptLog[r][Len(attemptLog[r])].via,
                                 raw, currentKeyIndex)]
              /\ pc' = [pc EXCEPT ![r] = "done"]
              /\ attemptLog' = [attemptLog EXCEPT ![r] = SetOutcome(@, "ok")]
              /\ UNCHANGED <<currentKeyIndex, attempt, client, lastError, rotateLog, sent>>
         ELSE Caught(r, ErrReadOfUndefined)
  /\ UNCHANGED <<config, selectedModel, alone, arguments>>

Succeed(r) == SucceedWith(r, RawResults)

\* The awaited call rejects (src/server.mjs:258-278).
FailWith(r, errs) ==
  /\ pc[r] = "waiting"
  /\ Failures < MaxFailures
  /\ \E err \in errs : Caught(r, err)
  /\ UNCHANGED <<config, selectedModel, alone, arguments>>

Fail(r) == FailWith(r, Errors)

Next == \E r \in Requests : CallTool(r) \/ Succeed(r) \/ Fail(r)

Spec == Init /\ [][Next]_vars

\* ---- what an outbound call is made with ----
\* The options the clients are constructed with (src/server.mjs:70, 77-81).
ClientOptions(c) ==
  IF c.kind = "apikey" THEN {"apiKey"}
  ELSE IF c.kind = "vertex" THEN {"vertexai", "project", "location"}
  ELSE {}

\* The members of the argument of generateContent (src/server.mjs:235-239) and
\* the members `config` can have (src/server.mjs:197-208).
GenerateContentParams == {"model", "contents", "config"}
GenerateContentConfig == {"thinkingConfig", "tools"}

\* Everything request r's outstanding call is configured with.
CallSettings(r) ==
  ClientOptions(client[r]) \cup GenerateContentParams \cup GenerateContentConfig

\* ---- one request on its own, with every kind of backend answer ----
SoloSucceed == SucceedWith(1, AllRawResults)

SoloFail == FailWith(1, AllErrors)

SoloCallTool == CallToolWith(1, AllArguments)

SoloNext == SoloCallTool \/ SoloSucceed \/ SoloFail

SoloSpec == Init /\ [][SoloNext]_vars

\* ---- the OpenAI server (src/openai/server.mjs) ----
OPENAI_DEFAULT_MODEL == "o3-pro"

REASONING_MODELS == {"o3", "o3-pro", "o3-mini", "o4-mini", "o1", "o1-pro"}

\* The requests the OpenAI server is sent: for the default model and for a
\* model without reasoning effort, with and without an effort.
OpenAIArguments ==
  {NoArguments} \cup
  {[Args("question", m, "undefined", "undefined", "undefined")
      EXCEPT !.reasoningEffort = e] :
     m \in {"undefined", "gpt-5.2"}, e \in {"undefined", "low"}}

\* openai.responses.create(params) (src/openai/server.mjs:104-114)
ResponsesCreateCall(a, model) ==
  LET reasoningEffort == IF a.reasoningEffort = "undefined" THEN "high"
                         ELSE a.reasoningEffort
  IN  [NoCall EXCEPT !.api = "responses.create", !.model = model,
         !.text = fullPrompt(a),
         !.reasoning = IF model \in REASONING_MODELS THEN reasoningEffort ELSE "absent"]

\* What responses.create resolves with: output_text, and usage with or without
\* its count of reasoning tokens.
OpenAIRawResults ==
  {[present |-> TRUE, text |-> "answer", usage |-> "reasoning"],
   [present |-> TRUE, text |-> "undefined", usage |-> "absent"]}

\* `[OpenAI ${selectedModel}${usageInfo}]\n${responseText}` (src/openai/server.mjs:116-130)
OpenAISuccessResult(model, raw) ==
  [NoResult EXCEPT !.kind = "success", !.model = model, !.backend = "OpenAI",
     !.responseText = IF raw.text = "undefined" THEN "" ELSE raw.text,
     !.parts = <<"selectedModel">>
               \o (IF raw.usage # "absent" THEN <<"usageInfo">> ELSE <<>>)
               \o <<"responseText">>]

\* `OpenAI error (${selectedModel}): ${msg}` (src/openai/server.mjs:132-138)
OpenAIErrorResult(model, err) ==
  [NoResult EXCEPT !.kind = "error", !.isError = TRUE, !.model = model,
     !.backend = "OpenAI", !.msg = MessageOf(err), !.parts = <<"selectedModel", "msg">>]

\* The handler from its entry to its await or return (src/openai/server.mjs:80-114).
OpenAICallTool(r) ==
  /\ Accepts(r)
  /\ \E name \in {"openai", "search"}, a \in OpenAIArguments :
       IF name # "openai"
         THEN /\ pc' = [pc EXCEPT ![r] = "done"]
              /\ result' = [result EXCEPT ![r] = UnknownToolResult(name)]
              /\ UNCHANGED <<selectedModel, arguments, sent>>
       ELSE IF ~a.present
         THEN /\ pc' = [pc EXCEPT ![r] = "threw"]
              /\ UNCHANGED <<result, selectedModel, arguments, sent>>
       ELSE LET m == IF Truthy(a.model) THEN a.model ELSE OPENAI_DEFAULT_MODEL
            IN  /\ arguments' = [arguments EXCEPT ![r] = a]
                /\ selectedModel' = [selectedModel EXCEPT ![r] = m]
                /\ sent' = [sent EXCEPT ![r] = ResponsesCreateCall(a, m)]
                /\ pc' = [pc EXCEPT ![r] = "waiting"]
                /\ result' = result
  /\ UNCHANGED <<config, currentKeyIndex, attempt, client, lastError, attemptLog, alone,
                 rotateLog>>

\* The awaited call resolves (src/openai/server.mjs:116-130).
OpenAISucceed(r) ==
  /\ pc[r] = "waiting" /\ sent[r].api = "responses.create"
  /\ \E raw \in OpenAIRawResults :
       result' = [result EXCEPT ![r] = OpenAISuccessResult(selectedModel[r], raw)]
  /\ pc' = [pc EXCEPT ![r] = "done"]
  /\ UNCHANGED <<config, currentKeyIndex, selectedModel, attempt, client, lastError,
                 attemptLog, alone, rotateLog, arguments, sent>>

\* The awaited call rejects (src/openai/server.mjs:132-138).
OpenAIFail(r) ==
  /\ pc[r] = "waiting" /\ sent[r].api = "responses.create"
  /\ \E err \in {ErrTooManyRequests} :
       /\ result' = [result EXCEPT ![r] = OpenAIErrorResult(selectedModel[r], err)]
       /\ lastError' = [lastError EXCEPT ![r] = err]
  /\ pc' = [pc EXCEPT ![r] = "done"]
  /\ UNCHANGED <<config, currentKeyIndex, selectedModel, attempt, client, attemptLog,
                 alone, rotateLog, arguments, sent>>

\* ---- both servers, one request each: request 1 to the Gemini server with
\* every combination of arguments, the last request to the OpenAI server ----
OpenAIRequest == MaxRequests

GeminiCall == CallToolWith(1, AllArguments)
GeminiSucceed == pc[1] = "waiting" /\ sent[1].api = "generateContent" /\ Succeed(1)
GeminiFail == pc[1] = "waiting" /\ sent[1].api = "generateContent" /\ Fail(1)

GatewaysNext ==
  \/ GeminiCall
  \/ GeminiSucceed
  \/ GeminiFail
  \/ OpenAICallTool(OpenAIRequest)
  \/ OpenAISucceed(OpenAIRequest)
  \/ OpenAIFail(OpenAIRequest)

GatewaysSpec == Init /\ [][GatewaysNext]_vars

\* ---- the key pool on its own: rotateApiKey() called from any cursor position ----
PoolInit == InitRest /\ currentKeyIndex \in 0..Max(Len(API_KEYS) - 1, 0)

RotateCall ==
  /\ Len(rotateLog) < MaxRotateCalls
  /\ LET rot == rotateApiKey(currentKeyIndex)
     IN  /\ currentKeyIndex' = rot.index
         /\ rotateLog' = Append(rotateLog, [before |-> currentKeyIndex,
                                            after |-> rot.index, ret |-> rot.ret])
  /\ UNCHANGED <<config, pc, selectedModel, attempt, client, lastError, result,
                 attemptLog, alone, arguments, sent>>

PoolNext == RotateCall

PoolSpec == PoolInit /\ [][PoolNext]_vars

\* ---- properties ----
N == Len(API_KEYS)
LastOf(log) == log[Len(log)]
Done(r) == pc[r] = "done"
Keyed(log) == \A i \in 1..Len(log) : log[i].via = "apikey"
AllQuota(log, n) == \A i \in 1..n : log[i].outcome = "quota"
\* The position after p in the pool, cyclically (positions 1..N).
NextSlot(p) == (p % N) + 1

\* C1: a tool call makes at most max(N, 1) attempts on its first backend kind
\* and at most one on another kind, exactly one call is outstanding while it
\* is suspended, and once its last allowed attempt has failed it has returned
\* an error result.
C1_AttemptBudget ==
  \A r \in Requests :
    LET log == attemptLog[r]
    IN  /\ Cardinality({i \in 1..Len(log) : log[i].via = log[1].via}) <= Max(N, 1)
        /\ Cardinality({i \in 1..Len(log) : log[i].via # log[1].via}) <= 1
        /\ \A i \in 1..(Len(log) - 1) : log[i].outcome \in {"quota", "fatal"}
        /\ pc[r] = "waiting" <=> (log # <<>> /\ LastOf(log).outcome = "pending")
        /\ (log # <<>> /\ LastOf(log).outcome \in {"quota", "fatal"})
             => (Done(r) /\ result[r].isError)

C1_Witness ==
  \E r \in Requests :
    /\ N >= 2 /\ Done(r) /\ result[r].kind = "error"
    /\ Len(attemptLog[r]) = N /\ AllQuota(attemptLog[r], N)

\* C2: a keyed call that ran with no other request in flight, on a pool of
\* N >= 2, whose first k-1 attempts failed with quota exhaustion and whose
\* k-th succeeded: the k attempts went to k consecutive credentials, the loop
\* counter stands at the k-th, the result is a success naming the slot of the
\* k-th credential, and no attempt went to the managed backend.
C2_SoloRotationSuccess ==
  \A r \in Requests :
    LET log == attemptLog[r]
        k == Len(log)
    IN  (/\ N >= 2 /\ Done(r) /\ alone[r] /\ k >= 1
         /\ log[1].via = "apikey"
         /\ AllQuota(log, k - 1) /\ log[k].outcome = "ok")
        => /\ k <= N
           /\ attempt[r] = k - 1
           /\ Keyed(log)
           /\ \A i \in 1..(k - 1) : log[i + 1].key = NextSlot(log[i].key)
           /\ result[r].kind = "success" /\ ~result[r].isError
           /\ result[r].keySlot = log[k].key
           /\ result[r].keyTotal = N

C2_Witness ==
  \E r \in Requests :
    /\ N = 3 /\ Done(r) /\ alone[r] /\ Len(attemptLog[r]) = 3
    /\ Keyed(attemptLog[r]) /\ AllQuota(attemptLog[r], 2)
    /\ attemptLog[r][3].outcome = "ok" /\ result[r].keySlot = 3

\* C3: a keyed call on a pool of N >= 2 whose N attempts all failed with
\* quota exhaustion returns an error envelope stating the count N.
C3_ExhaustedCount ==
  \A r \in Requests :
    LET log == attemptLog[r]
    IN  (/\ N >= 2 /\ Len(log) = N /\ Keyed(log) /\ AllQuota(log, N))
        => /\ Done(r)
           /\ result[r].kind = "error" /\ result[r].isError
           /\ result[r].exhaustedHint
           /\ result[r].exhaustedCount = N

C3_Witness ==
  \E r \in Requests :
    /\ N = 2 /\ Len(attemptLog[r]) = 2 /\ Keyed(attemptLog[r])
    /\ AllQuota(attemptLog[r], 2) /\ result[r].exhaustedCount = 2

\* The requests whose model the registry does not list, so that either backend
\* kind may serve them, in auto routing with the Vertex client constructed.
EitherRequest(r) ==
  /\ BACKEND = "auto" /\ vertexClient
  /\ attemptLog[r] # <<>>
  /\ selectedModel[r] \notin VERTEX_MODELS

\* C4 as stated: a request under `either` affinity whose first attempt failed
\* with a fatal error has made exactly one further attempt, on the other
\* backend kind, when it gives up.
C4_Original ==
  \A r \in Requests :
    (EitherRequest(r) /\ Done(r) /\ attemptLog[r][1].outcome = "fatal")
      => /\ Len(attemptLog[r]) = 2
         /\ attemptLog[r][2].via # attemptLog[r][1].via

\* C4, amended: a request, of any model and routing mode, whose first backend
\* attempt failed with a fatal error has made no further attempt on any
\* backend: it has returned the error after that single attempt, and the
\* cursor was not rotated for it.
C4_FatalFirstAttemptGivesUp ==
  \A r \in Requests :
    (attemptLog[r] # <<>> /\ attemptLog[r][1].outcome = "fatal")
      => /\ Len(attemptLog[r]) = 1
         /\ attempt[r] = 0
         /\ Done(r)
         /\ result[r].kind = "error" /\ result[r].isError
         /\ ~result[r].exhaustedHint

C4_Witness ==
  \E r \in Requests :
    /\ EitherRequest(r) /\ N >= 2 /\ Done(r)
    /\ attemptLog[r] = <<[via |-> "apikey", key |-> 1, outcome |-> "fatal"]>>

\* C5 as stated: in auto routing with the Vertex client constructed, a request
\* for a model the registry does not list has its first attempt on the managed
\* backend, and a keyed attempt only after a failed managed one.
C5_Original ==
  \A r \in Requests :
    EitherRequest(r) =>
      \A i \in 1..Len(attemptLog[r]) :
        attemptLog[r][i].via = "apikey" =>
          \E j \in 1..(i - 1) :
            /\ attemptLog[r][j].via = "vertex"
            /\ attemptLog[r][j].outcome \in {"quota", "fatal"}

\* C5, amended: in auto routing with the Vertex client constructed, a request
\* has its first attempt on the managed backend exactly when its model is in
\* the Vertex model list or the key pool is empty, and then it makes no keyed
\* attempt at all; a request for any other model (every model the registry
\* does not list, the pool not being empty) makes keyed attempts only.
C5_AutoRouting ==
  \A r \in Requests :
    (BACKEND = "auto" /\ vertexClient /\ attemptLog[r] # <<>>) =>
      LET log == attemptLog[r]
          managed == selectedModel[r] \in VERTEX_MODELS \/ N = 0
      IN  \A i \in 1..Len(log) :
            log[i].via = (IF managed THEN "vertex" ELSE "apikey")

C5_Witness ==
  \E r, q \in Requests :
    /\ BACKEND = "auto" /\ vertexClient /\ N >= 1
    /\ selectedModel[r] \in VERTEX_MODELS /\ Done(r)
    /\ attemptLog[r] # <<>> /\ attemptLog[r][1].via = "vertex"
    /\ EitherRequest(q) /\ attemptLog[q][1].via = "apikey"

\* The step is request r's keyed attempt failing with an error classified as
\* quota exhaustion.
KeyedQuotaFailure(r) ==
  /\ pc[r] = "waiting"
  /\ LastOf(attemptLog[r]).via = "apikey"
  /\ attemptLog'[r][Len(attemptLog[r])].outcome = "quota"

\* C6: the cursor changes, and a request goes on to a further attempt, only
\* in a step in which a keyed attempt fails with quota exhaustion; a success,
\* a fatal failure, any failure on the managed backend, a configuration error
\* and an unknown tool leave the cursor alone and end the request.
C6_RotationOnlyOnKeyedQuota ==
  [][/\ currentKeyIndex' # currentKeyIndex => \E r \in Requests : KeyedQuotaFailure(r)
     /\ \A r \in Requests :
          (attemptLog[r] # <<>> /\ Len(attemptLog'[r]) > Len(attemptLog[r]))
            => KeyedQuotaFailure(r)
     /\ \A r \in Requests :
          (pc[r] # "done" /\ pc'[r] = "done"
           /\ result'[r].kind \in {"success", "unknownTool", "configError"})
            => currentKeyIndex' = currentKeyIndex
     /\ \A r \in Requests :
          (pc[r] = "waiting" /\ attemptLog'[r][Len(attemptLog[r])].outcome = "fatal")
            => (currentKeyIndex' = currentKeyIndex /\ pc'[r] = "done")
     /\ \A r \in Requests :
          (pc[r] = "waiting" /\ LastOf(attemptLog[r]).via = "vertex"
           /\ attemptLog'[r][Len(attemptLog[r])].outcome \in {"quota", "fatal"})
            => (currentKeyIndex' = currentKeyIndex /\ pc'[r] = "done")]_vars

C6_Witness ==
  \E r, q \in Requests :
    /\ currentKeyIndex = 1
    /\ Len(attemptLog[r]) = 2 /\ attemptLog[r][1].outcome = "quota"
    /\ attemptLog[r][2] = [via |-> "apikey", key |-> 2, outcome |-> "fatal"]
    /\ result[q].kind = "unknownTool"

\* The keyed attempts, over all requests, that failed with quota exhaustion.
QuotaEvents ==
  SumOver([r \in Requests |->
            Cardinality({i \in 1..Len(attemptLog[r]) :
                           /\ attemptLog[r][i].via = "apikey"
                           /\ attemptLog[r][i].outcome = "quota"})], Requests)

\* C7: on a pool of N >= 2, whatever the interleaving of the requests, after k
\* quota-exhausted keyed failures in total the cursor is at (0 + k) mod N, and
\* rotateApiKey() was called once for each of them.
C7_NoLostRotation ==
  N >= 2 =>
    /\ currentKeyIndex = QuotaEvents % N
    /\ Len(rotateLog) = QuotaEvents

C7_Witness ==
  /\ N = 2 /\ QuotaEvents = 3 /\ currentKeyIndex = 1
  /\ \A r \in Requests :
       \E i \in 1..Len(attemptLog[r]) : attemptLog[r][i].outcome = "quota"
  /\ \E r \in Requests : ~alone[r]

\* C8: every keyed attempt is made with the credential at the cursor as it
\* stands when the attempt starts, all rotations completed before included,
\* whichever request performed them.
C8_RotationVisible ==
  [][\A r \in Requests :
       (/\ Len(attemptLog'[r]) > Len(attemptLog[r])
        /\ LastOf(attemptLog'[r]).via = "apikey")
         => /\ LastOf(attemptLog'[r]).key = API_KEYS[currentKeyIndex' + 1]
            /\ client'[r] = [kind |-> "apikey", key |-> API_KEYS[currentKeyIndex' + 1]]]_vars

C8_Witness ==
  \E r, q \in Requests :
    /\ r # q /\ N = 3
    /\ attemptLog[r] = <<[via |-> "apikey", key |-> 1, outcome |-> "quota"],
                         [via |-> "apikey", key |-> 2, outcome |-> "pending"]>>
    /\ attemptLog[q] = <<[via |-> "apikey", key |-> 2, outcome |-> "quota"],
                         [via |-> "apikey", key |-> 3, outcome |-> "pending"]>>

\* C9 as stated: the slot a successful keyed response reports is the position
\* of the credential its successful attempt was made with.
C9_ReportedSlotIsUsedKey ==
  \A r \in Requests :
    (/\ N >= 2 /\ Done(r) /\ result[r].kind = "success"
     /\ LastOf(attemptLog[r]).via = "apikey")
      => result[r].keySlot = LastOf(attemptLog[r]).key

\* C10: on a pool of N >= 2, from any cursor position, each rotateApiKey()
\* returns true and moves the cursor one position on modulo N, and N
\* consecutive calls bring it back to where it started.
C10_RotateCycle ==
  N >= 2 =>
    /\ \A i \in 1..Len(rotateLog) :
         /\ rotateLog[i].ret
         /\ rotateLog[i].after = (rotateLog[i].before + 1) % N
         /\ rotateLog[i].after # rotateLog[i].before
         /\ i + N - 1 <= Len(rotateLog) => rotateLog[i + N - 1].after = rotateLog[i].before
    /\ rotateLog # <<>> => currentKeyIndex = LastOf(rotateLog).after

C10_Witness ==
  /\ N = 3 /\ Len(rotateLog) = 3
  /\ rotateLog[1].before = 2 /\ currentKeyIndex = 2

\* C11: on a pool of zero or one credential every rotateApiKey() returns
\* false and leaves the cursor where it was, and a keyed attempt that failed
\* with quota exhaustion was the request's only attempt: the request has
\* returned the error.
C11_SmallPoolNoRotation ==
  N <= 1 =>
    /\ currentKeyIndex = 0
    /\ \A i \in 1..Len(rotateLog) :
         ~rotateLog[i].ret /\ rotateLog[i].after = rotateLog[i].before
    /\ \A r \in Requests :
         (attemptLog[r] # <<>> /\ attemptLog[r][1].via = "apikey"
          /\ attemptLog[r][1].outcome = "quota")
           => /\ Len(attemptLog[r]) = 1
              /\ attempt[r] = 0
              /\ Done(r)
              /\ result[r].kind = "error" /\ result[r].isError

C11_Witness ==
  \E r \in Requests :
    /\ N = 1 /\ Done(r) /\ Len(rotateLog) >= 1
    /\ attemptLog[r] = <<[via |-> "apikey", key |-> 1, outcome |-> "quota"]>>
    /\ result[r].exhaustedHint

\* C12 as stated: no tool call ends by throwing out of the handler; every call
\* that has ended has returned an envelope, and the envelope is error-flagged
\* unless a backend attempt succeeded.
C12_NoUnhandledFault ==
  \A r \in Requests :
    /\ pc[r] # "threw"
    /\ Done(r) =>
         /\ result[r].kind \in {"unknownTool", "configError", "success", "error"}
         /\ result[r].isError <=> result[r].kind # "success"

\* The handler has got past the tool name and the arguments of request r.
Dispatched(r) == selectedModel[r] # ""

\* C13: with an empty key pool and no Vertex client, a dispatched request has
\* returned the configuration error at once: it is error-flagged, no backend
\* call was made, the loop never went round again, and the cursor has not
\* moved.
C13_ConfigErrorImmediate ==
  \A r \in Requests :
    (N = 0 /\ ~vertexClient /\ Dispatched(r))
      => /\ Done(r)
         /\ result[r].kind = "configError" /\ result[r].isError
         /\ attemptLog[r] = <<>>
         /\ attempt[r] = 0
         /\ client[r] = NullClient
         /\ currentKeyIndex = 0 /\ rotateLog = <<>>

C13_Witness ==
  \E r, q \in Requests :
    /\ BACKEND = "apikey" /\ N = 0 /\ r # q
    /\ Dispatched(r) /\ Dispatched(q)
    /\ result[r].kind = "configError" /\ result[q].kind = "configError"

\* C14: a call naming another tool has returned an error envelope that names
\* the tool, without selecting a model or a client and without a backend
\* call, and it contributes nothing to the cursor: the cursor stands where
\* the keyed quota failures of the other requests put it.
C14_UnknownToolImmediate ==
  /\ \A r \in Requests :
       result[r].kind = "unknownTool"
         => /\ Done(r) /\ result[r].isError
            /\ result[r].msg = <<"search">>
            /\ ~Dispatched(r)
            /\ client[r] = NullClient
            /\ attempt[r] = 0
            /\ attemptLog[r] = <<>>
  /\ (\E r \in Requests : result[r].kind = "unknownTool")
       => currentKeyIndex = (IF N >= 2 THEN QuotaEvents % N ELSE 0)

C14_Witness ==
  \E r, q \in Requests :
    /\ result[r].kind = "unknownTool" /\ Done(r)
    /\ currentKeyIndex = 1
    /\ Len(attemptLog[q]) = 2 /\ pc[q] = "waiting"

Elems(seq) == {seq[i] : i \in 1..Len(seq)}

\* C15 as stated: the text of every failure envelope of a dispatched request,
\* configuration error or final backend error, carries the requested model
\* and the backend kind (the routing mode named by a configuration error
\* counts as one).
C15_FailureNamesModelAndBackend ==
  \A r \in Requests :
    (Done(r) /\ result[r].kind \in {"configError", "error"})
      => /\ "selectedModel" \in Elems(result[r].parts)
         /\ result[r].model = selectedModel[r]
         /\ {"backend", "BACKEND"} \cap Elems(result[r].parts) # {}

\* The request's last attempt succeeded.
Succeeded(r) == attemptLog[r] # <<>> /\ LastOf(attemptLog[r]).outcome = "ok"

\* C16 as stated: the text of every success begins with the model and the
\* backend and, for every keyed call whatever the pool size, a credential
\* slot, then the content, then the optional grounding note.
C16_Original ==
  \A r \in Requests :
    Succeeded(r) =>
      /\ Done(r) /\ ~result[r].isError
      /\ LastOf(attemptLog[r]).via = "apikey" =>
           /\ SubSeq(result[r].parts, 1, 3) = <<"selectedModel", "backend", "keyInfo">>
           /\ result[r].keySlot \in 1..N

\* C16, amended: a success is not error-flagged and its text begins with the
\* requested model and the backend that served it, then, for a keyed call on
\* a pool of two or more credentials only, a slot k/N with k in 1..N (a keyed
\* call on a single credential and a managed call carry no slot), then the
\* generated content (empty when the backend returned none), then the
\* grounding note when the result has grounding metadata.
C16_SuccessEnvelope ==
  \A r \in Requests :
    Succeeded(r) =>
      LET via == LastOf(attemptLog[r]).via
          res == result[r]
          slotShown == via = "apikey" /\ N >= 2
          head == IF slotShown THEN <<"selectedModel", "backend", "keyInfo">>
                  ELSE <<"selectedModel", "backend">>
      IN  /\ Done(r) /\ res.kind = "success" /\ ~res.isError
          /\ res.model = selectedModel[r]
          /\ res.backend = (IF via = "vertex" THEN "Vertex AI" ELSE "AI Studio")
          /\ SubSeq(res.parts, 1, Len(head)) = head
          /\ res.parts[Len(head) + 1] = "responseText"
          /\ res.responseText \in {"answer", ""}
          /\ Len(res.parts) = Len(head) + 1 + (IF res.groundingInfo THEN 1 ELSE 0)
          /\ res.groundingInfo => LastOf(res.parts) = "groundingInfo"
          /\ IF slotShown THEN res.keySlot \in 1..N /\ res.keyTotal = N
             ELSE res.keySlot = 0 /\ res.keyTotal = 0

C16_Witness ==
  /\ N = 1 /\ Succeeded(1)
  /\ client[1] = [kind |-> "apikey", key |-> 1]
  /\ result[1].parts = <<"selectedModel", "backend", "responseText">>
  /\ result[1].responseText = ""

\* The outbound calls of request r that have not been answered.
Outstanding(r) ==
  {i \in 1..Len(attemptLog[r]) : attemptLog[r][i].outcome = "pending"}

\* C17: a request has at most one backend call outstanding, and exactly one
\* while it is suspended; the loop counter counts the calls it has issued, one
\* for each iteration; and every attempt but the last one has failed before
\* the next one started.
C17_SequentialAttempts ==
  \A r \in Requests :
    LET log == attemptLog[r]
    IN  /\ Cardinality(Outstanding(r)) = (IF pc[r] = "waiting" THEN 1 ELSE 0)
        /\ Outstanding(r) \subseteq {Len(log)}
        /\ pc[r] = "waiting" => Len(log) = attempt[r] + 1
        /\ Len(log) \in {attempt[r], attempt[r] + 1}
        /\ \A i \in 1..(Len(log) - 1) : log[i].outcome = "quota"
        /\ pc[r] = "waiting" => client[r].key = LastOf(log).key

C17_Witness ==
  \E r, q \in Requests :
    /\ r # q /\ pc[r] = "waiting" /\ pc[q] = "waiting"
    /\ Len(attemptLog[r]) = 3 /\ Outstanding(r) = {3}
    /\ Len(attemptLog[q]) = 2 /\ Outstanding(q) = {2}

\* The settings by which the client library bounds a call in time.
TimeLimitSettings == {"timeout", "httpOptions", "abortSignal", "signal"}

\* C18 as stated, its first part: every outstanding backend call is made with
\* a per-call time limit, so that it ends even if the backend never answers.
C18_EveryCallTimeLimited ==
  \A r \in Requests :
    pc[r] = "waiting" => CallSettings(r) \cap TimeLimitSettings # {}

\* C19: while a request is suspended on its backend call, any request not yet
\* made can be accepted and any other suspended request can return, so neither
\* waits for the other and they may complete in either order.
C19_NoBlocking ==
  \A r \in Requests : \A q \in Requests \ {r} :
    pc[r] = "waiting" =>
      /\ pc[q] = "idle" => ENABLED CallTool(q)
      /\ pc[q] = "waiting" => ENABLED Succeed(q) /\ ENABLED Succeed(r)

\* One request is still suspended on its first call while another, in flight
\* together with it, has run through the whole pool and returned.
C19_Witness ==
  \E r \in Requests : \E q \in Requests \ {r} :
    /\ N >= 2
    /\ pc[r] = "waiting" /\ Len(attemptLog[r]) = 1
    /\ Done(q) /\ ~alone[q] /\ Len(attemptLog[q]) = N
    /\ result[q].isError /\ result[q].exhaustedHint

\* Every attempt of request r so far went to backend kind `via`, through a
\* client of that kind.
AllVia(r, via) ==
  /\ \A i \in 1..Len(attemptLog[r]) : attemptLog[r][i].via = via
  /\ pc[r] = "waiting" => client[r].kind = via

\* The vertex and apikey routing modes: the mode alone fixes the backend, and
\* in vertex mode the cursor stays where it started.
FixedModes ==
  /\ BACKEND = "vertex" =>
        /\ \A r \in Requests : AllVia(r, "vertex")
        /\ currentKeyIndex = 0 /\ rotateLog = <<>>
  /\ BACKEND = "apikey" => \A r \in Requests : AllVia(r, "apikey")

Calling(r) == pc[r] = "waiting"

\* C21: on every attempt the backend client is handed, for a request with a
\* (non-empty) context text, a prompt in which the context text comes first,
\* then a delimiter, then the original prompt text; for a request without one,
\* the original prompt and nothing else.
C21_PromptComposition ==
  \A r \in Requests :
    Calling(r) =>
      LET a == arguments[r]
          p == sent[r].text
      IN  /\ sent[r].api = "generateContent"
          /\ a.context \notin {"undefined", ""} =>
                \E i, j, k \in 1..Len(p) :
                  /\ i < j /\ j < k /\ k = Len(p)
                  /\ p[i] = a.context /\ p[j] = "\n\n" /\ p[k] = a.prompt
          /\ a.context \in {"undefined", ""} => p = <<a.prompt>>

\* A request with a context text is on its second attempt, after a rotation.
C21_Witness ==
  \E r \in Requests :
    /\ Calling(r) /\ attempt[r] = 1 /\ Len(attemptLog[r]) = 2
    /\ arguments[r].context = "notes"
    /\ sent[r].text = <<"Context:", "\n", "notes", "\n\n", "question">>

\* The envelope the success branch makes, in the current state, of raw result
\* raw for the outstanding call of request r.
Normalized(r, raw) ==
  SuccessResult(selectedModel[r], LastOf(attemptLog[r]).via, raw, currentKeyIndex)

\* C22 as stated: for a call that stays outstanding on the same client, the
\* envelope made of a given raw result is the same before and after any step,
\* the rotations of other requests included.
C22_NormalizationStable ==
  [][\A r \in Requests :
       (Calling(r) /\ pc'[r] = "waiting" /\ client'[r] = client[r]
          /\ attemptLog'[r] = attemptLog[r]) =>
         \A raw \in AllRawResults : Normalized(r, raw)' = Normalized(r, raw)]_vars

\* The attempts of a log that have failed, and the last of them.
FailedAttempts(log) == {i \in 1..Len(log) : log[i].outcome \in {"quota", "fatal"}}
LastFailure(log) == log[CHOOSE i \in FailedAttempts(log) : \A j \in FailedAttempts(log) : j <= i]

\* The message of err carries, in any letter case, one of the signals of
\* resource exhaustion or rate limiting.
MessageSignals(err) ==
  \E sig \in {<<"resource_exhausted">>, <<"resource", "has", "been", "exhausted">>,
               <<"quota">>, <<"429">>} :
    Includes(LowerAll(err.message), sig)

\* C23 as stated: the error a request last caught was labelled quota-exhausted
\* exactly when its message carries a signal or its HTTP status is 429.
C23_ClassifierMatchesStatus ==
  \A r \in Requests :
    lastError[r] # NoError =>
      (LastFailure(attemptLog[r]).outcome = "quota"
         <=> (MessageSignals(lastError[r]) \/ lastError[r].status = 429))

\* C25 as stated: whatever a successful backend call resolves with, the request
\* returns a non-error envelope, and no request catches an error that comes
\* from reading the raw result.
C25_NormalizationNeverFails ==
  \A r \in Requests :
    /\ Succeeded(r) => Done(r) /\ ~result[r].isError /\ result[r].kind = "success"
    /\ lastError[r] # ErrReadOfUndefined

\* The capabilities the servers take the models to have.
HasThinking(model) == model # "gemini-robotics-er-1.5-preview"
HasReasoningEffort(model) == model \in REASONING_MODELS

\* C24: an outbound call carries the thinking configuration only when the
\* thinking level is not NONE and the model has the capability, the reasoning
\* effort only for a reasoning model, and the search tool only when the
\* grounding toggle is on; a request asking for a capability its model lacks is
\* dispatched all the same.
C24_CapabilityOmitted ==
  \A r \in Requests :
    LET a == arguments[r]
        call == sent[r]
    IN  /\ call.thinkingConfig # "absent" =>
              /\ call.api = "generateContent"
              /\ a.thinkingLevel # "NONE" /\ HasThinking(call.model)
              /\ call.thinkingConfig = (IF a.thinkingLevel = "undefined" THEN "HIGH"
                                         ELSE a.thinkingLevel)
        /\ call.reasoning # "absent" =>
              /\ call.api = "responses.create"
              /\ HasReasoningEffort(call.model)
        /\ call.tools # "absent" =>
              /\ call.api = "generateContent"
              /\ a.googleSearch \in {"undefined", "true"}
        /\ (a.present /\ pc[r] # "idle") => call.api # "none" \/ result[r].kind = "configError"

\* The Gemini server has a call outstanding for the robotics model, asked with
\* a thinking level and sent without one, and the OpenAI server one for a
\* model without reasoning effort, asked with an effort and sent without one.
C24_Witness ==
  /\ Calling(1) /\ selectedModel[1] = "gemini-robotics-er-1.5-preview"
  /\ arguments[1].thinkingLevel = "LOW" /\ sent[1].thinkingConfig = "absent"
  /\ arguments[1].googleSearch = "false" /\ sent[1].tools = "absent"
  /\ Calling(OpenAIRequest) /\ selectedModel[OpenAIRequest] = "gpt-5.2"
  /\ arguments[OpenAIRequest].reasoningEffort = "low"
  /\ sent[OpenAIRequest].reasoning = "absent"

\* C26: the cursor is always a valid index, 0 <= cursor < N for a pool of
\* N >= 1 keys and 0 for an empty pool, and getApiKey returns the key at that
\* index, or null exactly when the pool is empty.
C26_CursorValid ==
  /\ N = 0 => currentKeyIndex = 0 /\ getApiKey(currentKeyIndex) = 0
  /\ N >= 1 =>
        /\ currentKeyIndex \in 0..(N - 1)
        /\ getApiKey(currentKeyIndex) = API_KEYS[currentKeyIndex + 1]
        /\ getApiKey(currentKeyIndex) # 0
  /\ \A i \in 1..Len(rotateLog) : rotateLog[i].after \in 0..Max(N - 1, 0)

\* Two requests interleaved have rotated the cursor past the end of a pool of
\* three and back to its start.
C26_Witness ==
  /\ N = 3 /\ currentKeyIndex = 0
  /\ \E i \in 1..Len(rotateLog) : rotateLog[i].before = N - 1 /\ rotateLog[i].after = 0
  /\ \A r \in Requests : ~alone[r] /\ attemptLog[r] # <<>>

\* Request r's failed keyed attempts went to key k of the pool.
FailedOnKey(r, k) ==
  \E i \in 1..Len(attemptLog[r]) :
    /\ attemptLog[r][i].via = "apikey" /\ attemptLog[r][i].key = API_KEYS[k]
    /\ attemptLog[r][i].outcome \in {"quota", "fatal"}

\* C27 as stated: a request whose failure text says that all N keys are
\* exhausted has itself made a failed keyed attempt on each of the N keys.
C27_ExhaustedMeansAllTried ==
  \A r \in Requests :
    (Done(r) /\ result[r].kind = "error" /\ result[r].exhaustedHint) =>
      \A k \in 1..N : FailedOnKey(r, k)

\* C28 as stated: the keyed attempts of one request go to different keys, a
\* retry in particular to another key than the attempt before it.
C28_NoKeyTwice ==
  \A r \in Requests :
    \A i, j \in 1..Len(attemptLog[r]) :
      (i < j /\ attemptLog[r][i].via = "apikey" /\ attemptLog[r][j].via = "apikey")
        => attemptLog[r][i].key # attemptLog[r][j].key

\* The step is request r returning from a keyed call that ran with no other
\* request in flight, on a pool of two or more keys.
ReturnsAlone(r) ==
  /\ N >= 2 /\ pc[r] = "waiting" /\ pc'[r] = "done" /\ alone[r]
  /\ Keyed(attemptLog'[r])

\* The cursor position of key k.
IndexOf(k) == CHOOSE i \in 0..(N - 1) : API_KEYS[i + 1] = k

\* The last n rotateApiKey() calls went once round the pool from position
\* start, each returning true.
RoundTrip(log, n, start) ==
  /\ Len(log) >= n
  /\ \A i \in 1..n :
       LET e == log[Len(log) - n + i]
       IN  /\ e.ret
           /\ e.before = (start + i - 1) % N
           /\ e.after = (start + i) % N

\* C29, on the return of a keyed request that ran alone on a pool of N >= 2:
\* if all its attempts failed with quota exhaustion, it made N of them and N
\* rotations, and the cursor is back where the request found it; if it
\* succeeded, the cursor is on the key that succeeded.  And a request that
\* starts after such a success, nothing else having run, makes its first
\* keyed attempt with that key.
C29_CursorAfterSoloRequest ==
  /\ [][\A r \in Requests :
          ReturnsAlone(r) =>
            LET log == attemptLog'[r]
                start == IndexOf(log[1].key)
            IN  /\ AllQuota(log, Len(log)) =>
                      /\ Len(log) = N
                      /\ RoundTrip(rotateLog', N, start)
                      /\ Len(rotateLog') = Len(rotateLog) + 1
                      /\ currentKeyIndex' = start
                /\ LastOf(log).outcome = "ok" =>
                      /\ currentKeyIndex' = IndexOf(LastOf(log).key)
                      /\ rotateLog' = rotateLog]_vars
  /\ [](\A r \in Requests : \A q \in Requests \ {r} :
          (/\ N >= 2 /\ Done(r) /\ alone[r] /\ Succeeded(r)
           /\ LastOf(attemptLog[r]).via = "apikey"
           /\ Calling(q) /\ alone[q] /\ Len(attemptLog[q]) = 1
           /\ attemptLog[q][1].via = "apikey"
           /\ \A o \in Requests \ {r, q} : attemptLog[o] = <<>>)
          => attemptLog[q][1].key = LastOf(attemptLog[r]).key)

\* On a pool of three, one request has failed on the first key and succeeded
\* on the second, and the next request, started after it, is on the second key.
C29_Witness ==
  \E r \in Requests : \E q \in Requests \ {r} :
    /\ N = 3 /\ Done(r) /\ alone[r] /\ Succeeded(r) /\ Len(attemptLog[r]) = 2
    /\ Keyed(attemptLog[r]) /\ LastOf(attemptLog[r]).key = API_KEYS[2]
    /\ currentKeyIndex = 1
    /\ Calling(q) /\ alone[q] /\ attemptLog[q] = <<[via |-> "apikey", key |-> API_KEYS[2],
                                                     outcome |-> "pending"]>>

====
